---- MODULE Spec2Model ----
(***************************************************************************)
(* A model of extractor.py: the encoding detector read_text_try, the block *)
(* extractor extract_from_text and the directory walk walk_and_extract.    *)
(*                                                                         *)
(* A Python str is a sequence of code points (integers) and a bytes object *)
(* a sequence of integers 0..255.  Python's 0-based indices are kept for   *)
(* the cursor i and for start; lines[i] of the code is lines[i + 1] here.  *)
(***************************************************************************)
EXTENDS Integers, Sequences, FiniteSets, TLC

VARIABLES
    text,        \* extract_from_text: the parameter text
    name,        \* extract_from_text / walk_and_extract: the parameter name
    lines,       \* extract_from_text: lines
    i,           \* extract_from_text: the cursor i
    results,     \* extract_from_text: results
    block_id,    \* extract_from_text: block_id of the block being collected
    start,       \* extract_from_text: start of the block being collected
    block_lines, \* extract_from_text: block_lines of the block being collected
    blocks,      \* history: per appended record, its start and its block_lines
    consumed,    \* history: per increment of i, the index passed and how
    pc,          \* the position of the running function
    caller,      \* who called the running function: "main" or "walk"
    fs,          \* which files open(path, 'rb').read() may find: see Contents
    b,           \* read_text_try: b
    e,           \* read_text_try: position of the for loop in ENCODINGS
    decoded,     \* read_text_try: the returned pair
    ndirs,       \* walk_and_extract: directories os.walk has yielded so far
    dirpath,     \* walk_and_extract: dirpath
    files,       \* walk_and_extract: the files of dirpath not yet visited
    items,       \* walk_and_extract: the records of the file not yet filtered
    emitted,     \* history: every record extract_from_text returned to the walk
    out          \* walk_and_extract: out

vars == <<text, name, lines, i, results, block_id, start, block_lines, blocks,
          consumed, pc, caller, fs, b, e, decoded, ndirs, dirpath, files,
          items, emitted, out>>

extractVars == <<text, name, lines, i, results, block_id, start, block_lines,
                 blocks, consumed>>
readVars == <<fs, b, e, decoded>>
walkVars == <<ndirs, dirpath, files, items, emitted, out>>

----------------------------------------------------------------------------
(* Characters.                                                             *)

Ord ==
    ("#" :> 35) @@ (" " :> 32) @@ ("\t" :> 9) @@ ("t" :> 116) @@ (";" :> 59) @@ ("_" :> 95) @@
    ("|" :> 124) @@ ("N" :> 78) @@ ("n" :> 110) @@ ("M" :> 77) @@
    ("1" :> 49) @@ ("2" :> 50) @@ ("a" :> 97) @@ ("b" :> 98) @@ ("c" :> 99) @@
    ("x" :> 120) @@ ("y" :> 121) @@ ("q" :> 113) @@ ("r" :> 114) @@
    ("." :> 46) @@ ("\\" :> 92) @@ ("g" :> 103) @@ ("i" :> 105) @@ ("d" :> 100) @@
    ("e" :> 101) @@ ("u" :> 117) @@ ("l" :> 108) @@ ("s" :> 115) @@
    ("m" :> 109) @@ ("v" :> 118) @@ ("j" :> 106) @@ ("o" :> 111) @@
    ("p" :> 112) @@ ("G" :> 71) @@ ("C" :> 67) @@ ("S" :> 83) @@ ("V" :> 86)

\* The str written as a tuple of one-character strings.
Str(t) == [k \in 1..Len(t) |-> Ord[t[k]]]

\* The '\n' of '\n'.join(...)
NL == 10

\* The characters of str.isspace(), which str.strip() without argument and
\* the regex \s use.
SpaceChars ==
    {9, 10, 11, 12, 13, 28, 29, 30, 31, 32, 133, 160, 5760, 8232, 8233, 8239,
     8287, 12288} \cup (8192..8202)

IsSpace(c) == c \in SpaceChars

\* The regex \d, on the code points below 128.
IsDigit(c) == c \in 48..57

\* The regex \w, on the code points below 256.
IsWord(c) ==
    \/ c \in 48..57
    \/ c \in 65..90
    \/ c \in 97..122
    \/ c = 95
    \/ c \in {170, 178, 179, 181, 185, 186, 188, 189, 190}
    \/ c \in (192..214) \cup (216..246) \cup (248..255)

\* str.lower() and re.IGNORECASE, on the code points below 128.
Lower(c) == IF c \in 65..90 THEN c + 32 ELSE c

----------------------------------------------------------------------------
(* str methods.                                                            *)

\* s[k:] of Python, k 0-based.
From(s, k) == SubSeq(s, k + 1, Len(s))

StartsWith(s, p) == Len(s) >= Len(p) /\ SubSeq(s, 1, Len(p)) = p

EndsWith(s, p) ==
    Len(s) >= Len(p) /\ SubSeq(s, Len(s) - Len(p) + 1, Len(s)) = p

\* p in s
Contains(s, p) ==
    \E k \in 0..(Len(s) - Len(p)) : SubSeq(s, k + 1, k + Len(p)) = p

LowerStr(s) == [k \in 1..Len(s) |-> Lower(s[k])]

\* The number of leading characters of s that are in chars.
LeadCount(s, chars) ==
    IF \A k \in 1..Len(s) : s[k] \in chars
    THEN Len(s)
    ELSE (CHOOSE k \in 1..Len(s) :
              s[k] \notin chars /\ \A j \in 1..(k - 1) : s[j] \in chars) - 1

\* The number of trailing characters of s that are in chars.
TrailCount(s, chars) ==
    IF \A k \in 1..Len(s) : s[k] \in chars
    THEN Len(s)
    ELSE Len(s) -
         (CHOOSE k \in 1..Len(s) :
              s[k] \notin chars /\ \A j \in (k + 1)..Len(s) : s[j] \in chars)

\* s.lstrip()
LStrip(s) == From(s, LeadCount(s, SpaceChars))

\* s.rstrip()
RStrip(s) == SubSeq(s, 1, Len(s) - TrailCount(s, SpaceChars))

\* s.strip()
Strip(s) == RStrip(LStrip(s))

\* s.lstrip(chars), chars given as a set of code points
LStripChars(s, chars) == From(s, LeadCount(s, chars))

\* sep.join(parts), sep one character
RECURSIVE Join(_, _)
Join(parts, sep) ==
    IF parts = <<>> THEN <<>>
    ELSE IF Len(parts) = 1 THEN parts[1]
    ELSE parts[1] \o <<sep>> \o Join(Tail(parts), sep)

\* The line boundaries of str.splitlines().
IsLineBreak(c) == c \in {10, 11, 12, 13, 28, 29, 30, 133, 8232, 8233}

\* text.splitlines(): k is the 0-based position, cur the line being read.
RECURSIVE SplitFrom(_, _, _, _)
SplitFrom(t, k, cur, acc) ==
    IF k >= Len(t)
    THEN IF cur = <<>> THEN acc ELSE Append(acc, cur)
    ELSE IF IsLineBreak(t[k + 1])
    THEN IF t[k + 1] = 13 /\ k + 1 < Len(t) /\ t[k + 2] = NL
         THEN SplitFrom(t, k + 2, <<>>, Append(acc, cur))
         ELSE SplitFrom(t, k + 1, <<>>, Append(acc, cur))
    ELSE SplitFrom(t, k + 1, Append(cur, t[k + 1]), acc)

SplitLines(t) == SplitFrom(t, 0, <<>>, <<>>)

----------------------------------------------------------------------------
(* make_header_re and the marker regex.                                    *)

NoMatch == <<>>

\* The ways  ^#\s*(?P<id>.+_NAME\d+)\b  (re.IGNORECASE) matches at the start
\* of line: <<s, p, d>> where \s* takes s characters, .+ ends at position p
\* and \d+ ends at position d (positions 1-based).
HeaderWays(line, nm) ==
    LET L == Len(line)
        n == Len(nm)
        \* the lengths \s* can take after the '#'
        S == { s \in 0..(L - 1) :
                 line[1] = 35 /\ \A k \in 2..(1 + s) : IsSpace(line[k]) }
        \* the ends of .+ that _NAME follows
        P(s) == { p \in (2 + s)..(L - n - 2) :
                    /\ \A k \in (2 + s)..p : line[k] # 10
                    /\ line[p + 1] = 95
                    /\ \A k \in 1..n : Lower(line[p + 1 + k]) = Lower(nm[k]) }
        \* the ends of \d+ that \b follows
        D(p) == { d \in (p + 2 + n)..L :
                    /\ \A k \in (p + 2 + n)..d : IsDigit(line[k])
                    /\ (d = L \/ ~IsWord(line[d + 1])) }
    IN  UNION { UNION { { <<s, p, d>> : d \in D(p) } : p \in P(s) } : s \in S }

\* Whether way v is tried before way w: every quantifier is greedy.
Before(v, w) ==
    \/ v[1] > w[1]
    \/ v[1] = w[1] /\ v[2] > w[2]
    \/ v[1] = w[1] /\ v[2] = w[2] /\ v[3] >= w[3]

\* header_re.match(line): NoMatch, or m.group('id').
HeaderMatch(line, nm) ==
    LET ways == HeaderWays(line, nm)
    IN  IF ways = {} THEN NoMatch
        ELSE LET w == CHOOSE v \in ways : \A u \in ways : Before(v, u)
             IN  SubSeq(line, 2 + w[1], w[3])

\* A matcher that strips the leading whitespace of the line first.
IsHeaderStripped(line, nm) == HeaderMatch(LStrip(line), nm) # NoMatch

\* header_re.match(line) is not None
IsHeader(line, nm) == HeaderMatch(line, nm) # NoMatch

\* re.compile(r"\|\s*#\s*" + re.escape(id) + r"\s*\|").search(ln)
MarkerSearch(ln, id) ==
    LET L == Len(ln)
        n == Len(id)
    IN  \E k \in 1..L, h \in 1..L, a \in 1..L, z \in 1..L :
            /\ k < h /\ h < a /\ a + n <= z
            /\ ln[k] = 124
            /\ \A j \in (k + 1)..(h - 1) : IsSpace(ln[j])
            /\ ln[h] = 35
            /\ \A j \in (h + 1)..(a - 1) : IsSpace(ln[j])
            /\ SubSeq(ln, a, a + n - 1) = id
            /\ \A j \in (a + n)..(z - 1) : IsSpace(ln[j])
            /\ ln[z] = 124

----------------------------------------------------------------------------
(* extract_from_text: the classification of a block's lines.               *)

\* A test for the marker that does not strip the line first.
IsCommentUnstripped(ln) == StartsWith(ln, <<59>>)

\* ln.strip().startswith(';')
IsComment(ln) == StartsWith(Strip(ln), <<59>>)

\* ln.lstrip('; ').rstrip()
OrigRaw(ln) == RStrip(LStripChars(ln, {59, 32}))

\* A test that ends a block only at the next header for name.
EndsBlockAtHeader(ln) == IsHeader(ln, name)

\* lines[i].startswith('# ')
EndsBlock(ln) == StartsWith(ln, <<35, 32>>)

\* orig_lines_raw
OrigLinesRaw(bl) ==
    LET commented == SelectSeq(bl, IsComment)
    IN  [k \in 1..Len(commented) |-> OrigRaw(commented[k])]

\* orig_lines without the removal of the lines that repeat the id.
OrigLinesUnfiltered(bl, id) == OrigLinesRaw(bl)

\* orig_lines
OrigLines(bl, id) ==
    LET Keep(ln) == ~MarkerSearch(ln, id) IN SelectSeq(OrigLinesRaw(bl), Keep)

\* trans_lines
TransLines(bl) ==
    LET Keep(ln) == ~IsComment(ln) /\ Strip(ln) # <<>>
        kept == SelectSeq(bl, Keep)
    IN  [k \in 1..Len(kept) |-> RStrip(kept[k])]

\* The record appended to results; every local variable of the code is
\* bound once.
Record(bl, id) ==
    CHOOSE rec \in
        { [id |-> id, orig |-> Strip(o), trans |-> Strip(t)] :
            o \in { Join(orig_lines, NL) : orig_lines \in {OrigLines(bl, id)} },
            t \in { Join(trans_lines, NL) : trans_lines \in {TransLines(bl)} } } :
        TRUE

\* An append that merges a record into an earlier record of the same id.
AppendOrMerge(res, rec) ==
    IF \E k \in 1..Len(res) : res[k].id = rec.id
    THEN [k \in 1..Len(res) |-> IF res[k].id = rec.id THEN rec ELSE res[k]]
    ELSE Append(res, rec)

\* results.append(rec)
AppendResult(res, rec) == Append(res, rec)

----------------------------------------------------------------------------
(* bytes.decode(encoding), errors='strict'.  A result is [ok, text].       *)

Failed == [ok |-> FALSE, text |-> <<>>]
Decoded(t) == [ok |-> TRUE, text |-> t]

IsCont(x) == x \in 128..191

\* The UTF-8 sequence that begins at 0-based position k of bs: <<>> when it is
\* ill-formed, else <<its length, its code point>>.
Utf8At(bs, k) ==
    LET n  == Len(bs) - k
        b0 == bs[k + 1]
        b1 == bs[k + 2]
        b2 == bs[k + 3]
        b3 == bs[k + 4]
    IN  IF b0 < 128 THEN <<1, b0>>
        ELSE IF b0 \in 194..223
        THEN IF n >= 2 /\ IsCont(b1)
             THEN <<2, (b0 - 192) * 64 + (b1 - 128)>>
             ELSE <<>>
        ELSE IF b0 \in 224..239
        THEN IF /\ n >= 3
                /\ IsCont(b1)
                /\ (b0 = 224 => b1 >= 160)
                /\ (b0 = 237 => b1 <= 159)
                /\ IsCont(b2)
             THEN <<3, (b0 - 224) * 4096 + (b1 - 128) * 64 + (b2 - 128)>>
             ELSE <<>>
        ELSE IF b0 \in 240..244
        THEN IF /\ n >= 4
                /\ IsCont(b1)
                /\ (b0 = 240 => b1 >= 144)
                /\ (b0 = 244 => b1 <= 143)
                /\ IsCont(b2)
                /\ IsCont(b3)
             THEN <<4, (b0 - 240) * 262144 + (b1 - 128) * 4096
                        + (b2 - 128) * 64 + (b3 - 128)>>
             ELSE <<>>
        ELSE <<>>

RECURSIVE Utf8From(_, _, _)
Utf8From(bs, k, acc) ==
    IF k >= Len(bs) THEN Decoded(acc)
    ELSE LET u == Utf8At(bs, k)
         IN  IF u = <<>> THEN Failed
             ELSE Utf8From(bs, k + u[1], Append(acc, u[2]))

\* b.decode('utf-8')
DecodeUtf8(bs) == Utf8From(bs, 0, <<>>)

\* b.decode('utf-8-sig'): a leading EF BB BF is dropped.
DecodeUtf8Sig(bs) ==
    IF StartsWith(bs, <<239, 187, 191>>)
    THEN Utf8From(bs, 3, <<>>)
    ELSE Utf8From(bs, 0, <<>>)

\* The 16-bit unit at 0-based position k of bs.
Unit(bs, k, order) ==
    IF order = "little"
    THEN bs[k + 1] + 256 * bs[k + 2]
    ELSE 256 * bs[k + 1] + bs[k + 2]

RECURSIVE Utf16From(_, _, _, _)
Utf16From(bs, k, order, acc) ==
    IF k >= Len(bs) THEN Decoded(acc)
    ELSE IF Len(bs) - k < 2 THEN Failed         \* truncated data
    ELSE LET u == Unit(bs, k, order)
         IN  IF u \in 55296..56319               \* a high surrogate
             THEN IF Len(bs) - k >= 4 /\ Unit(bs, k + 2, order) \in 56320..57343
                  THEN Utf16From(bs, k + 4, order,
                           Append(acc, 65536 + (u - 55296) * 1024
                                       + (Unit(bs, k + 2, order) - 56320)))
                  ELSE Failed
             ELSE IF u \in 56320..57343 THEN Failed  \* a lone low surrogate
             ELSE Utf16From(bs, k + 2, order, Append(acc, u))

\* sys.byteorder of the machine: the order 'utf-16' takes without a mark.
ByteOrder == "little"

\* b.decode('utf-16'): a byte order mark selects the order and is dropped.
DecodeUtf16(bs) ==
    IF StartsWith(bs, <<255, 254>>) THEN Utf16From(bs, 2, "little", <<>>)
    ELSE IF StartsWith(bs, <<254, 255>>) THEN Utf16From(bs, 2, "big", <<>>)
    ELSE Utf16From(bs, 0, ByteOrder, <<>>)

\* b.decode('utf-16le'), b.decode('utf-16be')
DecodeUtf16le(bs) == Utf16From(bs, 0, "little", <<>>)
DecodeUtf16be(bs) == Utf16From(bs, 0, "big", <<>>)

\* The two-byte characters of the gbk codec, for the bytes of ByteAlphabet.
GbkTable ==
    (<<195, 65>> :> 32897) @@ (<<195, 195>> :> 22969) @@
    (<<195, 169>> :> 33541) @@ (<<195, 254>> :> 25720) @@
    (<<195, 216>> :> 31192) @@ (<<169, 65>> :> 12322) @@
    (<<169, 195>> :> 9503) @@ (<<169, 169>> :> 9477) @@
    (<<169, 216>> :> 9524) @@ (<<254, 65>> :> 64013) @@
    (<<216, 65>> :> 35897) @@ (<<216, 195>> :> 23387) @@
    (<<216, 169>> :> 19998) @@ (<<216, 254>> :> 20317) @@
    (<<216, 216>> :> 21006)

RECURSIVE GbkFrom(_, _, _)
GbkFrom(bs, k, acc) ==
    IF k >= Len(bs) THEN Decoded(acc)
    ELSE IF bs[k + 1] < 128 THEN GbkFrom(bs, k + 1, Append(acc, bs[k + 1]))
    ELSE IF Len(bs) - k >= 2 /\ <<bs[k + 1], bs[k + 2]>> \in DOMAIN GbkTable
    THEN GbkFrom(bs, k + 2, Append(acc, GbkTable[<<bs[k + 1], bs[k + 2]>>]))
    ELSE Failed

\* b.decode('gbk')
DecodeGbk(bs) == GbkFrom(bs, 0, <<>>)

\* b.decode('latin-1'): every byte is the code point of the same number.
DecodeLatin1(bs) == Decoded(bs)

\* The candidates with latin-1, which accepts every byte, before gbk.
EncodingsLatinEarly ==
    <<"utf-8", "utf-8-sig", "utf-16", "utf-16le", "utf-16be", "latin-1", "gbk">>

ENCODINGS ==
    <<"utf-8", "utf-8-sig", "utf-16", "utf-16le", "utf-16be", "gbk", "latin-1">>

\* b.decode(enc)
Decode(bs, enc) ==
    CASE enc = "utf-8" -> DecodeUtf8(bs)
      [] enc = "utf-8-sig" -> DecodeUtf8Sig(bs)
      [] enc = "utf-16" -> DecodeUtf16(bs)
      [] enc = "utf-16le" -> DecodeUtf16le(bs)
      [] enc = "utf-16be" -> DecodeUtf16be(bs)
      [] enc = "gbk" -> DecodeGbk(bs)
      [] enc = "latin-1" -> DecodeLatin1(bs)

None == [none |-> TRUE, text |-> <<>>, enc |-> "None"]

----------------------------------------------------------------------------
(* The inputs.                                                             *)

MaxLines == 3
MaxBytes == 3
MaxDirs == 2

SeqsUpTo(S, n) == UNION { [1..k -> S] : k \in 0..n }

\* Lines for the scan: headers for the name N in several spellings, '# '
\* lines that are no header for N, and lines of a block.
ScanLines ==
    { Str(<<"#", " ", "a", "_", "N", "1">>),
      Str(<<"#", "b", "_", "N", "2">>),
      Str(<<"#", "\t", "a", "_", "N", "1">>),
      Str(<<" ", "#", " ", "a", "_", "N", "1">>),
      Str(<<"#", " ", "a", "_", "n", "1">>),
      Str(<<"#", " ", "c", "_", "M", "1">>),
      Str(<<"#", " ", "a", "_", "N", "1", "x">>),
      Str(<<"#", " ", "_", "N", "1", " ", "q">>),
      Str(<<";", " ", "x">>),
      Str(<<" ", "y", " ">>) }

\* Lines for the classification: one header, and commentary, translation and
\* blank lines, and lines that repeat the block's id between bars.
BlockLines ==
    { Str(<<"#", " ", "a", "_", "N", "1">>),
      Str(<<";", " ", "x">>),
      Str(<<"\t", ";", " ", "x">>),
      Str(<<" ", ";", ";", "x", " ">>),
      Str(<<";">>),
      Str(<<" ", "y", " ">>),
      <<>>,
      Str(<<";", " ", "|", "#", "a", "_", "N", "1", "|">>),
      Str(<<";", "|", " ", "#", "a", "_", "n", "1", " ", "|">>),
      Str(<<"|", "#", "a", "_", "N", "1", "|">>) }

Names == { Str(<<"N">>) }

Texts(pool) == { Join(ls, NL) : ls \in SeqsUpTo(pool, MaxLines) }

\* Bytes for the encoding detector: ASCII, the UTF-8 form of U+00E9, the two
\* byte order marks, and 0xD8, the high byte of a surrogate.
ByteAlphabet == {65, 195, 169, 255, 254, 0, 216}

ByteStrings == SeqsUpTo(ByteAlphabet, MaxBytes)

\* text.encode('utf-16'), on code points below 256
Utf16Bom(t) ==
    <<255, 254>> \o [k \in 1..(2 * Len(t)) |-> IF k % 2 = 1 THEN t[(k + 1) \div 2] ELSE 0]

\* The files of the scanned tree.
ScriptFiles ==
    { Join(<<Str(<<"#", " ", "a", "_", "N", "1">>), Str(<<";", " ", "x">>)>>, NL),
      Str(<<"#", " ", "a", "_", "N", "1">>)
          \o <<13, 10>> \o Str(<<"#", " ", "c", "_", "M", "1">>),
      Utf16Bom(Join(<<Str(<<"#", " ", "b", "_", "N", "2">>), Str(<<"y">>)>>, NL)),
      Join(<<Str(<<"#", "b", "_", "N", "2">>), <<>>, Str(<<"#", " ", "a", "_", "N", "1">>)>>, NL),
      <<255>> }

\* What a file may hold, by the kind of file system.
Contents(kind) ==
    CASE kind = "bytes" -> ByteStrings
      [] kind = "scripts" -> ScriptFiles
      [] OTHER -> {}

DirPaths ==
    { Str(<<"r">>),
      Str(<<"r", "\\", ".", "G", "i", "t">>),
      Str(<<"r", "\\", "b", "u", "i", "l", "d", "\\", "s">>) }

Listings ==
    { <<>>,
      <<Str(<<"a", ".", "t", "x", "t">>)>>,
      <<Str(<<"a", ".", "b", "i", "n">>), Str(<<"a">>)>>,
      <<Str(<<"a", ".", "C", "S", "V">>), Str(<<"j", "s", "o", "n">>)>> }

----------------------------------------------------------------------------
(* extract_from_text                                                       *)

\* lines[i] of the code
Line(k) == lines[k + 1]

ExtractEnter ==
    /\ pc = "extract"
    /\ \E ls \in {SplitLines(text)} : lines' = ls
    /\ results' = <<>>
    /\ i' = 0
    /\ blocks' = <<>>
    /\ consumed' = <<>>
    /\ pc' = "outer"
    /\ UNCHANGED <<text, name, block_id, start, block_lines, caller>>
    /\ UNCHANGED <<readVars, walkVars>>

OuterHeader ==
    /\ pc = "outer"
    /\ i < Len(lines)
    /\ IsHeader(Line(i), name)
    /\ \E id \in {HeaderMatch(Line(i), name)} : block_id' = Strip(id)
    /\ start' = i
    /\ i' = i + 1
    /\ block_lines' = <<>>
    /\ consumed' = Append(consumed, <<i, "header">>)
    /\ pc' = "inner"
    /\ UNCHANGED <<text, name, lines, results, blocks, caller>>
    /\ UNCHANGED <<readVars, walkVars>>

OuterSkip ==
    /\ pc = "outer"
    /\ i < Len(lines)
    /\ ~IsHeader(Line(i), name)
    /\ i' = i + 1
    /\ consumed' = Append(consumed, <<i, "skip">>)
    /\ UNCHANGED <<text, name, lines, results, block_id, start, block_lines,
                   blocks, pc, caller>>
    /\ UNCHANGED <<readVars, walkVars>>

InnerCollect ==
    /\ pc = "inner"
    /\ i < Len(lines) /\ ~EndsBlock(Line(i))
    /\ block_lines' = Append(block_lines, Line(i))
    /\ i' = i + 1
    /\ consumed' = Append(consumed, <<i, "member">>)
    /\ UNCHANGED <<text, name, lines, results, block_id, start, blocks, pc,
                   caller>>
    /\ UNCHANGED <<readVars, walkVars>>

\* An end of the inner loop that passes over the line that ended the block.
InnerEndPastStop ==
    /\ pc = "inner"
    /\ ~(i < Len(lines) /\ ~EndsBlock(Line(i)))
    /\ \E rec \in {Record(block_lines, block_id)} :
          results' = AppendResult(results, rec)
    /\ blocks' = Append(blocks, [start |-> start, raw |-> block_lines])
    /\ i' = IF i < Len(lines) THEN i + 1 ELSE i
    /\ pc' = "outer"
    /\ UNCHANGED <<text, name, lines, block_id, start, block_lines,
                   consumed, caller>>
    /\ UNCHANGED <<readVars, walkVars>>

InnerEnd ==
    /\ pc = "inner"
    /\ ~(i < Len(lines) /\ ~EndsBlock(Line(i)))
    /\ \E rec \in {Record(block_lines, block_id)} :
          results' = AppendResult(results, rec)
    /\ blocks' = Append(blocks, [start |-> start, raw |-> block_lines])
    /\ pc' = "outer"
    /\ UNCHANGED <<text, name, lines, i, block_id, start, block_lines,
                   consumed, caller>>
    /\ UNCHANGED <<readVars, walkVars>>

\* History: the header at line s is the last line of the text, or a line that
\* begins with '# ' follows it.
Bare(s) == s + 1 = Len(lines) \/ StartsWith(Line(s + 1), <<35, 32>>)

ExtractReturn ==
    /\ pc = "outer"
    /\ ~(i < Len(lines))
    /\ IF caller = "walk"
       THEN /\ items' = results
            /\ emitted' = emitted \o
                   [k \in 1..Len(results) |->
                       [rec |-> results[k], bare |-> Bare(blocks[k].start)]]
            /\ pc' = "filter"
       ELSE /\ pc' = "done"
            /\ UNCHANGED <<items, emitted>>
    /\ UNCHANGED <<extractVars, caller, readVars, ndirs, dirpath, files, out>>

----------------------------------------------------------------------------
(* read_text_try                                                           *)

\* Where the running function returns to.
ReturnTo(main, walk) == IF caller = "walk" THEN walk ELSE main

ReadOpen ==
    /\ pc = "read"
    /\ \E c \in Contents(fs) : b' = c
    /\ e' = 1
    /\ pc' = "try"
    /\ UNCHANGED <<fs, decoded, caller, extractVars, walkVars>>

TrySucceed ==
    /\ pc = "try"
    /\ e <= Len(ENCODINGS)
    /\ Decode(b, ENCODINGS[e]).ok
    /\ decoded' = [none |-> FALSE, text |-> Decode(b, ENCODINGS[e]).text,
                   enc |-> ENCODINGS[e]]
    /\ pc' = ReturnTo("done", "opened")
    /\ UNCHANGED <<fs, b, e, caller, extractVars, walkVars>>

\* except Exception: continue; after the last encoding, return None, None.
TryFail ==
    /\ pc = "try"
    /\ e <= Len(ENCODINGS)
    /\ ~Decode(b, ENCODINGS[e]).ok
    /\ e' = e + 1
    /\ IF e + 1 > Len(ENCODINGS)
       THEN /\ decoded' = None
            /\ pc' = ReturnTo("done", "opened")
       ELSE UNCHANGED <<decoded, pc>>
    /\ UNCHANGED <<fs, b, caller, extractVars, walkVars>>

----------------------------------------------------------------------------
(* walk_and_extract                                                        *)

NoiseDirs ==
    { Str(<<"\\", ".", "g", "i", "t">>),
      Str(<<"\\", "d", "e", "b", "u", "g">>),
      Str(<<"\\", "s", "y", "s", "t", "e", "m">>),
      Str(<<"\\", "b", "u", "i", "l", "d">>) }

TextExts ==
    { Str(<<".", "b", "y", "t", "e", "s">>),
      Str(<<".", "t", "x", "t">>),
      Str(<<".", "s", "c", "r", "i", "p", "t">>),
      Str(<<".", "c", "s", "v">>),
      Str(<<".", "j", "s", "o", "n">>) }

\* any(skip in dirpath.lower() for skip in [...])
SkipDir(d) == \E skip \in NoiseDirs : Contains(LowerStr(d), skip)

\* not fn.lower().endswith((...)) and '.' in fn
SkipFile(fn) ==
    /\ ~\E ext \in TextExts : EndsWith(LowerStr(fn), ext)
    /\ Contains(fn, Str(<<".">>))

\* A filter that keeps only the records with a translation.
KeepsTranslated(item) == item.trans # <<>>

\* if item['trans'] or item['orig']
Keeps(item) == item.trans # <<>> \/ item.orig # <<>>

\* os.walk yields a directory.
WalkNextDir ==
    /\ pc = "walk"
    /\ ndirs < MaxDirs
    /\ ndirs' = ndirs + 1
    /\ \E d \in DirPaths, fl \in Listings :
          /\ dirpath' = d
          /\ IF SkipDir(d)
             THEN files' = <<>> /\ pc' = "walk"
             ELSE files' = fl /\ pc' = "files"
    /\ UNCHANGED <<items, emitted, out, caller, extractVars, readVars>>

WalkNextFile ==
    /\ pc = "files"
    /\ files # <<>>
    /\ files' = Tail(files)
    /\ pc' = IF SkipFile(Head(files)) THEN "files" ELSE "read"
    /\ UNCHANGED <<ndirs, dirpath, items, emitted, out, caller, extractVars,
                   readVars>>

WalkDirDone ==
    /\ pc = "files"
    /\ files = <<>>
    /\ pc' = "walk"
    /\ UNCHANGED <<walkVars, caller, extractVars, readVars>>

\* if text is None: continue; else extract_from_text(text, name) is called.
WalkOpened ==
    /\ pc = "opened"
    /\ IF decoded.none
       THEN pc' = "files" /\ UNCHANGED text
       ELSE pc' = "extract" /\ text' = decoded.text
    /\ UNCHANGED <<name, lines, i, results, block_id, start, block_lines,
                   blocks, consumed, caller, readVars, walkVars>>

FilterItem ==
    /\ pc = "filter"
    /\ items # <<>>
    /\ out' = IF Keeps(Head(items)) THEN Append(out, Head(items)) ELSE out
    /\ items' = Tail(items)
    /\ UNCHANGED <<ndirs, dirpath, files, emitted, pc, caller, extractVars,
                   readVars>>

FilterDone ==
    /\ pc = "filter"
    /\ items = <<>>
    /\ pc' = "files"
    /\ UNCHANGED <<walkVars, caller, extractVars, readVars>>

\* os.walk is exhausted: return out.
WalkReturn ==
    /\ pc = "walk"
    /\ pc' = "done"
    /\ UNCHANGED <<walkVars, caller, extractVars, readVars>>

----------------------------------------------------------------------------
(* The specifications.                                                     *)

ExtractIdle ==
    /\ lines = <<>>
    /\ i = 0
    /\ results = <<>>
    /\ block_id = <<>>
    /\ start = 0
    /\ block_lines = <<>>
    /\ blocks = <<>>
    /\ consumed = <<>>

ReadIdle ==
    /\ b = <<>>
    /\ e = 0
    /\ decoded = None

WalkIdle ==
    /\ ndirs = 0
    /\ dirpath = <<>>
    /\ files = <<>>
    /\ items = <<>>
    /\ emitted = <<>>
    /\ out = <<>>

\* extract_from_text(text, name) is called.
InitExtract(pool) ==
    /\ text \in Texts(pool)
    /\ name \in Names
    /\ pc = "extract"
    /\ caller = "main"
    /\ fs = "none"
    /\ ExtractIdle /\ ReadIdle /\ WalkIdle

Init == InitExtract(ScanLines)

InitBlocks == InitExtract(BlockLines)

\* read_text_try(path) is called.
InitRead ==
    /\ text = <<>>
    /\ name = <<>>
    /\ pc = "read"
    /\ caller = "main"
    /\ fs = "bytes"
    /\ ExtractIdle /\ ReadIdle /\ WalkIdle

\* walk_and_extract(root, name) is called.
InitWalk ==
    /\ text = <<>>
    /\ name \in Names
    /\ pc = "walk"
    /\ caller = "walk"
    /\ fs = "scripts"
    /\ ExtractIdle /\ ReadIdle /\ WalkIdle

Next ==
    \/ ExtractEnter
    \/ OuterHeader
    \/ OuterSkip
    \/ InnerCollect
    \/ InnerEnd
    \/ ExtractReturn

NextRead ==
    \/ ReadOpen
    \/ TrySucceed
    \/ TryFail

NextWalk ==
    \/ WalkNextDir
    \/ WalkNextFile
    \/ WalkDirDone
    \/ ReadOpen
    \/ TrySucceed
    \/ TryFail
    \/ WalkOpened
    \/ ExtractEnter
    \/ OuterHeader
    \/ OuterSkip
    \/ InnerCollect
    \/ InnerEnd
    \/ ExtractReturn
    \/ FilterItem
    \/ FilterDone
    \/ WalkReturn

Spec == Init /\ [][Next]_vars

SpecBlocks == InitBlocks /\ [][Next]_vars

SpecRead == InitRead /\ [][NextRead]_vars

SpecWalk == InitWalk /\ [][NextWalk]_vars

----------------------------------------------------------------------------
(* The claims.  What a claim says of a line is written here in the claim's *)
(* own terms, apart from the operators the actions use.                    *)

\* The line begins with '#' followed by a space.
HashSpace(ln) == Len(ln) >= 2 /\ ln[1] = 35 /\ ln[2] = 32

\* The index of the first line after line s that begins with '# ', or
\* len(lines) when there is none (indices 0-based).
BlockStop(s) ==
    LET stops == { j \in (s + 1)..(Len(lines) - 1) : HashSpace(Line(j)) }
    IN  IF stops = {} THEN Len(lines)
        ELSE CHOOSE j \in stops : \A j2 \in stops : j <= j2

\* The line has the shape of a header for nm: '#', then somewhere from the
\* third character on '_', nm in any case, and a run of digits that ends at
\* the end of the line or before a character that is no word character.
HeaderShape(ln, nm) ==
    /\ Len(ln) >= 1 /\ ln[1] = 35
    /\ \E u \in 3..Len(ln) :
          /\ ln[u] = 95
          /\ u + Len(nm) + 1 <= Len(ln)
          /\ \A k \in 1..Len(nm) : Lower(ln[u + k]) = Lower(nm[k])
          /\ \E d \in (u + Len(nm) + 1)..Len(ln) :
                /\ \A k \in (u + Len(nm) + 1)..d : ln[k] \in 48..57
                /\ (d = Len(ln) \/ ~IsWord(ln[d + 1]))

\* The line is commentary: its stripped form begins with ';'.
Commentary(ln) == LET t == Strip(ln) IN t # <<>> /\ t[1] = 59

\* The line holds the field '#' id between two bars.
SelfId(ln, id) ==
    \E a \in 1..Len(ln), z \in 1..Len(ln) :
        /\ a < z /\ ln[a] = 124 /\ ln[z] = 124
        /\ LET inner == Strip(SubSeq(ln, a + 1, z - 1))
           IN  inner # <<>> /\ inner[1] = 35 /\ Strip(Tail(inner)) = id

Indented(ln) == ln # <<>> /\ IsSpace(ln[1])

AllLines(bl, P(_)) == \A k \in 1..Len(bl) : P(bl[k])

\* The sequence of the F(x), x in s.
Map(s, F(_)) == [k \in 1..Len(s) |-> F(s[k])]

\* The kinds recorded for line k (0-based) in consumed.
KindsOf(k) == { consumed[j][2] : j \in { j \in 1..Len(consumed) : consumed[j][1] = k } }

\* C1: for every record, the block's raw line buffer is exactly the run of
\* lines strictly after its header line up to, not including, the next line
\* that begins with '# ', or up to the end of the input; the line that ends
\* the block need not be a header for name.
C1_BlockExtent ==
    /\ Len(blocks) = Len(results)
    /\ \A k \in 1..Len(blocks) :
          blocks[k].raw =
              SubSeq(lines, blocks[k].start + 2, BlockStop(blocks[k].start))

\* C1 happens: a finished scan with a block of at least one line that a '# '
\* line ended which is no header for name.
C1_Witness ==
    /\ pc = "done"
    /\ \E k \in 1..Len(blocks) :
          /\ blocks[k].raw # <<>>
          /\ BlockStop(blocks[k].start) < Len(lines)
          /\ ~HeaderShape(Line(BlockStop(blocks[k].start)), name)

\* C2 as stated: a line the outer scan examines is recognised as a header
\* exactly when, after stripping its leading whitespace, it has the shape of
\* a header for name, so that an indented header starts a block too.
C2_Original ==
    \A j \in 1..Len(consumed) :
        consumed[j][2] # "member" =>
            (consumed[j][2] = "header" <=>
                HeaderShape(LStrip(Line(consumed[j][1])), name))

\* C2 as amended: a line the outer scan examines is recognised as a header
\* exactly when the line itself, its leading whitespace not stripped, has the
\* shape of a header for name; the header line of every block begins with
\* '#', and an indented line never starts a block.
C2_HeaderUnstripped ==
    /\ \A j \in 1..Len(consumed) :
          consumed[j][2] # "member" =>
              (consumed[j][2] = "header" <=>
                  HeaderShape(Line(consumed[j][1]), name))
    /\ \A k \in 1..Len(blocks) :
          /\ Line(blocks[k].start)[1] = 35
          /\ ~Indented(Line(blocks[k].start))

\* C2 happens: a finished scan that skipped an indented line whose stripped
\* form has the shape of a header, and that started a block at a header
\* written in another case than name.
C2_Witness ==
    /\ pc = "done"
    /\ \E j \in 1..Len(consumed) :
          /\ consumed[j][2] = "skip"
          /\ Indented(Line(consumed[j][1]))
          /\ HeaderShape(LStrip(Line(consumed[j][1])), name)
    /\ \E k \in 1..Len(blocks) :
          /\ HeaderShape(Line(blocks[k].start), name)
          /\ ~Contains(Line(blocks[k].start), name)

\* What C3 says a commentary line contributes: the line without its leading
\* whitespace, without the marker and the spaces after it, right-trimmed.
C3_Contribution(ln) == RStrip(LStripChars(LStrip(ln), {59, 32}))

C3_OrigLines(bl, id) ==
    LET Keep(ln) == ~SelfId(ln, id)
    IN  Map(SelectSeq(SelectSeq(bl, Commentary), Keep), C3_Contribution)

\* C3: every commentary line of a block, indented or not, contributes to the
\* record's original its text with the marker and the spaces after it
\* removed and right-trimmed, so that no contributed line starts with ';'.
C3_MarkerRemoved ==
    \A k \in 1..Len(blocks) :
        /\ results[k].orig = Strip(Join(C3_OrigLines(blocks[k].raw, results[k].id), NL))
        /\ (results[k].orig # <<>> => results[k].orig[1] # 59)

\* C4 as stated: a block of commentary lines only has a non-empty original
\* and an empty translation, and a block of non-commentary lines only has a
\* non-empty translation and an empty original.
C4_Original ==
    \A k \in 1..Len(blocks) :
        LET NotCommentary(ln) == ~Commentary(ln)
        IN  /\ AllLines(blocks[k].raw, Commentary) =>
                  results[k].orig # <<>> /\ results[k].trans = <<>>
            /\ AllLines(blocks[k].raw, NotCommentary) =>
                  results[k].trans # <<>> /\ results[k].orig = <<>>

\* The line carries a character that is neither whitespace nor ';'.
HasText(ln) == \E k \in 1..Len(ln) : ~IsSpace(ln[k]) /\ ln[k] # 59

\* C4 as amended: a block of commentary lines only has an empty translation,
\* and a non-empty original whenever one of its lines carries text other
\* than markers and whitespace and does not repeat the block's id between
\* bars; a block of non-commentary lines only has an empty original, and a
\* non-empty translation whenever one of its lines is not blank.
C4_OneSided ==
    \A k \in 1..Len(blocks) :
        LET raw == blocks[k].raw
            NotCommentary(ln) == ~Commentary(ln)
        IN  /\ AllLines(raw, Commentary) =>
                  /\ results[k].trans = <<>>
                  /\ (\E j \in 1..Len(raw) :
                          HasText(raw[j]) /\ ~SelfId(raw[j], results[k].id))
                        => results[k].orig # <<>>
            /\ AllLines(raw, NotCommentary) =>
                  /\ results[k].orig = <<>>
                  /\ (\E j \in 1..Len(raw) : Strip(raw[j]) # <<>>)
                        => results[k].trans # <<>>

\* C4 happens: a finished scan with a block of two or more commentary lines
\* only, one of them without text, whose original is not empty and whose
\* translation is empty.
C4_Witness ==
    /\ pc = "done"
    /\ \E k \in 1..Len(blocks) :
          /\ Len(blocks[k].raw) >= 2
          /\ AllLines(blocks[k].raw, Commentary)
          /\ \E j \in 1..Len(blocks[k].raw) : ~HasText(blocks[k].raw[j])
          /\ results[k].orig # <<>>
          /\ results[k].trans = <<>>

\* A field of the emitted record is not empty.
NonEmpty(em) == em.rec.orig # <<>> \/ em.rec.trans # <<>>

C6_Order ==
    <<"utf-8", "utf-8-sig", "utf-16", "utf-16le", "utf-16be", "gbk", "latin-1">>

\* C6: read_text_try returns the decode and the name of the first candidate,
\* in the order utf-8, utf-8-sig, utf-16, utf-16le, utf-16be, gbk, latin-1,
\* under which decoding succeeds; it returns (None, None) only when every
\* candidate failed, which happens for no bytes, latin-1 accepting them all.
C6_FirstSuccess ==
    pc = "done" =>
        LET ok == { k \in 1..Len(C6_Order) : Decode(b, C6_Order[k]).ok }
            first == CHOOSE k \in ok : \A k2 \in ok : k <= k2
        IN  /\ Len(C6_Order) \in ok
            /\ ~decoded.none
            /\ decoded.enc = C6_Order[first]
            /\ decoded.text = Decode(b, C6_Order[first]).text
            /\ e = first

\* C6 happens: bytes that five candidates failed on were decoded as gbk,
\* the earlier of the two candidates that accept them.
C6_Witness ==
    /\ pc = "done"
    /\ decoded.enc = "gbk"
    /\ Decode(b, "latin-1").ok
    /\ decoded.text # Decode(b, "latin-1").text

\* C7: in a block with id X, a raw line that holds the field '#' X between
\* bars is left out of the record's original, and every other commentary
\* line of the block is kept in it, in the order of the input.
C7_SelfIdDropped ==
    \A k \in 1..Len(blocks) :
        LET Kept(ln) == Commentary(ln) /\ ~SelfId(ln, results[k].id)
        IN  results[k].orig =
                Strip(Join(Map(SelectSeq(blocks[k].raw, Kept), OrigRaw), NL))

\* C7 happens: a finished scan with a block in which a commentary line that
\* repeats the id was dropped and another commentary line was kept.
C7_Witness ==
    /\ pc = "done"
    /\ \E k \in 1..Len(blocks) :
          /\ \E j \in 1..Len(blocks[k].raw) :
                Commentary(blocks[k].raw[j]) /\ SelfId(blocks[k].raw[j], results[k].id)
          /\ results[k].orig # <<>>

\* C8: the records are in the order of the header lines that started them:
\* the header line of each record is before that of the next, each record
\* carries the id of its own header line, and headers with the same id give
\* separate records.
C8_OrderPreserved ==
    /\ Len(results) = Len(blocks)
    /\ Len(results) + (IF pc = "inner" THEN 1 ELSE 0) =
          Cardinality({ j \in 1..Len(consumed) : consumed[j][2] = "header" })
    /\ \A k \in 1..Len(results) :
          /\ "header" \in KindsOf(blocks[k].start)
          /\ results[k].id = Strip(HeaderMatch(Line(blocks[k].start), name))
          /\ k < Len(results) => blocks[k].start < blocks[k + 1].start

\* C8 happens: a finished scan with two records of the same id.
C8_Witness ==
    /\ pc = "done"
    /\ \E k \in 1..Len(results), m \in 1..Len(results) :
          k < m /\ results[k].id = results[m].id

\* C9: every line that matches the header pattern for name starts a block of
\* its own: there are as many records as such lines, and no such line is in
\* the raw line buffer of a block.
C9_EveryHeaderStarts ==
    pc = "done" =>
        /\ Len(results) =
              Cardinality({ k \in 0..(Len(lines) - 1) : HeaderShape(Line(k), name) })
        /\ \A k \in 1..Len(blocks) :
              \A j \in 1..Len(blocks[k].raw) : ~HeaderShape(blocks[k].raw[j], name)

\* The lines before the cursor are consumed one by one, each exactly once and
\* in order: as a header when a block starts there, as a member when it is in
\* the raw line buffer of exactly one block, and else as a skipped line; the
\* line after the last line of a finished block is no member.
C10_Consumed ==
    /\ i \in 0..Len(lines)
    /\ Len(consumed) = i
    /\ pc = "done" => i = Len(lines)
    /\ \A j \in 0..(i - 1) :
          LET kind == consumed[j + 1][2]
              starts == { k \in 1..Len(blocks) : blocks[k].start = j }
              owners == { k \in 1..Len(blocks) :
                            /\ blocks[k].start < j
                            /\ j <= blocks[k].start + Len(blocks[k].raw) }
          IN  /\ consumed[j + 1][1] = j
              /\ kind \in {"header", "member", "skip"}
              /\ kind = "header" <=> (starts # {} \/ (pc = "inner" /\ start = j))
              /\ kind = "member" <=> (owners # {} \/ (pc = "inner" /\ start < j))
              /\ Cardinality(starts) <= 1
              /\ Cardinality(owners) <= 1
    /\ \A k \in 1..Len(blocks) :
          LET t == blocks[k].start + Len(blocks[k].raw) + 1
          IN  /\ t <= i
              /\ t < i => consumed[t + 1][2] \in {"header", "skip"}

\* What is left of the scan: twice the lines not yet passed, plus the steps
\* left at the current line.
C10_Left ==
    CASE pc = "extract" -> 2 * Len(SplitLines(text)) + 3
      [] pc = "outer" -> 2 * (Len(lines) - i) + 1
      [] pc = "inner" -> 2 * (Len(lines) - i) + 2
      [] OTHER -> 0

\* A step of a loop of the scan moves the cursor forward by one, no step
\* moves it back, and every step leaves less of the scan.
C10_Forward ==
    /\ i' >= i
    /\ C10_Left' < C10_Left
    /\ (pc = "outer" /\ i < Len(lines)) => i' = i + 1
    /\ (pc = "inner" /\ i < Len(lines) /\ ~HashSpace(Line(i))) => i' = i + 1

\* C10: the scan ends on every input (it can always take a step until it has
\* returned, and every step leaves less to do) and is one forward pass: the cursor
\* never decreases, increases on every iteration of the two loops, stays in
\* 0..len(lines), and every line is consumed exactly once, as a header, as a
\* member of one block or as a skipped line; the line that ends a block is
\* not consumed by the block and is examined as a possible header.
C10_SinglePass ==
    /\ []C10_Consumed
    /\ [][C10_Forward]_vars
    /\ [](pc = "done" \/ ENABLED Next)

\* C10 happens: a finished scan of at least three lines that consumed a
\* header, a member and a skipped line, the skipped line having ended a
\* block.
C10_Witness ==
    /\ pc = "done"
    /\ Len(lines) >= 3
    /\ \E k \in 1..Len(blocks) :
          /\ blocks[k].raw # <<>>
          /\ BlockStop(blocks[k].start) < Len(lines)
          /\ "skip" \in KindsOf(BlockStop(blocks[k].start))

====
